---- MODULE Spec2Model ----
(***************************************************************************)
(* GeneratorSettings (wallet/core/src/tx/generator/settings.rs): the three *)
(* constructors try_new_with_account, try_new_with_context and             *)
(* try_new_with_iterator, and the transformation utxo_context_transfer.    *)
(*                                                                         *)
(* The module holds no shared state: every call works on its arguments     *)
(* alone.  The model therefore follows one settings value at a time: a     *)
(* constructor is called, the value it returns is passed through           *)
(* utxo_context_transfer any number of times, and is then handed on.       *)
(*                                                                         *)
(* Option<T> is a sequence of length 0 or 1, Result<T> a tagged record.    *)
(***************************************************************************)
EXTENDS Integers, Sequences, FiniteSets, TLC

\* ---------------------------------------------------------------- bounds
\* Number of distinct UtxoContext handles per processor binding.
NumContexts == 1
\* sig_op_count and minimum_signatures are drawn from 0..MaxSigOps.
MaxSigOps == 1
\* A supplied iterator yields at most MaxEntries distinct references.
MaxEntries == 2

\* ------------------------------------------------------- Option / Result
None == <<>>
Some(x) == <<x>>
Ok(v) == [tag |-> "Ok", value |-> v]
Err(e) == [tag |-> "Err", error |-> e]

\* ------------------------------------------------- collaborators' values
\* NetworkId: a network type with an optional numeric suffix.
NetworkIds ==
    { [network_type |-> "Mainnet", suffix |-> None],
      [network_type |-> "Testnet", suffix |-> Some(10)],
      [network_type |-> "Testnet", suffix |-> Some(11)],
      [network_type |-> "Simnet", suffix |-> None],
      [network_type |-> "Devnet", suffix |-> None] }

\* Address prefixes; "unknown" denotes no network.
Prefixes == {"kaspa", "kaspatest", "kaspasim", "kaspadev", "unknown"}

AddressPayloads == {"payload_1"}

Addresses == [prefix : Prefixes, payload : AddressPayloads]

\* A UtxoContext handle with the network binding of its processor.
UtxoContexts == [id : 1..NumContexts, network_id : {None} \cup {Some(n) : n \in NetworkIds}]

Multiplexers == {"multiplexer_1"}

PaymentDestinations == {"destination_1", "destination_2"}

FeesValues == {"fees_1", "fees_2"}

PayloadValues == {None, Some(<<1>>)}

SigOpCounts == 0..MaxSigOps

MinimumSignatures == 0..MaxSigOps

\* UtxoEntryReference values.
UtxoEntryReferences == 1..MaxEntries

RECURSIVE SeqsUpTo(_)
SeqsUpTo(n) ==
    IF n = 0 THEN { <<>> }
    ELSE LET shorter == SeqsUpTo(n - 1)
         IN shorter \cup { Append(s, e) : s \in { t \in shorter : Len(t) = n - 1 },
                                          e \in UtxoEntryReferences }

Distinct(s) == \A i, j \in 1..Len(s) : i # j => s[i] # s[j]

\* A boxed iterator is the sequence of references it has yet to yield.
BoxedIterators == { [items |-> s] : s \in { t \in SeqsUpTo(MaxEntries) : Distinct(t) } }

\* Prefix of a network's addresses (From<NetworkType> for Prefix).
PrefixFromNetworkType(network_type) ==
    CASE network_type = "Mainnet" -> "kaspa"
      [] network_type = "Testnet" -> "kaspatest"
      [] network_type = "Simnet" -> "kaspasim"
      [] network_type = "Devnet" -> "kaspadev"

\* An account: its context, the outcome of change_address(), the wallet's
\* multiplexer, sig_op_count() and minimum_signatures().  An account signs
\* with at least one key and derives its change address for the network its
\* context is bound to.
Accounts ==
    { a \in [ utxo_context : UtxoContexts,
              change_address : { Ok(x) : x \in Addresses } \cup { Err("change_address") },
              wallet_multiplexer : Multiplexers,
              sig_op_count : 1..(MaxSigOps + 1),
              minimum_signatures : 1..(MaxSigOps + 1) ] :
        (a.change_address.tag = "Ok" /\ a.utxo_context.network_id # None) =>
            a.change_address.value.prefix =
                PrefixFromNetworkType(a.utxo_context.network_id[1].network_type) }

\* utxo_context.processor().network_id(): fails while no network is bound.
processor_network_id(utxo_context) ==
    IF utxo_context.network_id = None
    THEN Err("network_id")
    ELSE Ok(utxo_context.network_id[1])

\* NetworkId -> NetworkType (.into()): the suffix is dropped.
NetworkTypeFromNetworkId(network_id) == network_id.network_type

\* NetworkType::try_from(Prefix).
NetworkTypeTryFromPrefix(prefix) ==
    CASE prefix = "kaspa" -> Ok("Mainnet")
      [] prefix = "kaspatest" -> Ok("Testnet")
      [] prefix = "kaspasim" -> Ok("Simnet")
      [] prefix = "kaspadev" -> Ok("Devnet")
      [] OTHER -> Err("prefix")

\* UtxoIterator::new(utxo_context): a fresh iterator over the context.
UtxoIteratorNew(utxo_context) == [over |-> utxo_context]

\* ------------------------------------------------------ GeneratorSettings
GeneratorSettingsFields ==
    { "network_type", "multiplexer", "utxo_iterator", "source_utxo_context",
      "sig_op_count", "minimum_signatures", "change_address",
      "final_transaction_priority_fee", "final_transaction_destination",
      "final_transaction_payload", "destination_utxo_context" }

\* Variant: a failed change_address() falls back to a default address.
try_new_with_account_default_address(account, final_transaction_destination, final_priority_fee, final_transaction_payload) ==
    LET network_id == processor_network_id(account.utxo_context)
        change_address == IF account.change_address.tag = "Err"
                          THEN [prefix |-> "kaspa", payload |-> "payload_1"]
                          ELSE account.change_address.value
    IN  IF network_id.tag = "Err" THEN Err(network_id.error)
        ELSE Ok([ network_type |-> NetworkTypeFromNetworkId(network_id.value),
                  multiplexer |-> Some(account.wallet_multiplexer),
                  sig_op_count |-> account.sig_op_count,
                  minimum_signatures |-> account.minimum_signatures,
                  change_address |-> change_address,
                  utxo_iterator |-> UtxoIteratorNew(account.utxo_context),
                  source_utxo_context |-> Some(account.utxo_context),
                  final_transaction_priority_fee |-> final_priority_fee,
                  final_transaction_destination |-> final_transaction_destination,
                  final_transaction_payload |-> final_transaction_payload,
                  destination_utxo_context |-> None ])

\* Variant: sig_op_count and minimum_signatures are taken from each other's getter.
try_new_with_account_swapped(account, final_transaction_destination, final_priority_fee, final_transaction_payload) ==
    LET network_id == processor_network_id(account.utxo_context)
        change_address == account.change_address
    IN  IF network_id.tag = "Err" THEN Err(network_id.error)
        ELSE IF change_address.tag = "Err" THEN Err(change_address.error)
        ELSE Ok([ network_type |-> NetworkTypeFromNetworkId(network_id.value),
                  multiplexer |-> Some(account.wallet_multiplexer),
                  sig_op_count |-> account.minimum_signatures,
                  minimum_signatures |-> account.sig_op_count,
                  change_address |-> change_address.value,
                  utxo_iterator |-> UtxoIteratorNew(account.utxo_context),
                  source_utxo_context |-> Some(account.utxo_context),
                  final_transaction_priority_fee |-> final_priority_fee,
                  final_transaction_destination |-> final_transaction_destination,
                  final_transaction_payload |-> final_transaction_payload,
                  destination_utxo_context |-> None ])

try_new_with_account(account, final_transaction_destination, final_priority_fee, final_transaction_payload) ==
    LET network_id == processor_network_id(account.utxo_context)
        change_address == account.change_address
    IN  IF network_id.tag = "Err" THEN Err(network_id.error)
        ELSE IF change_address.tag = "Err" THEN Err(change_address.error)
        ELSE Ok([ network_type |-> NetworkTypeFromNetworkId(network_id.value),
                  multiplexer |-> Some(account.wallet_multiplexer),
                  sig_op_count |-> account.sig_op_count,
                  minimum_signatures |-> account.minimum_signatures,
                  change_address |-> change_address.value,
                  utxo_iterator |-> UtxoIteratorNew(account.utxo_context),
                  source_utxo_context |-> Some(account.utxo_context),
                  final_transaction_priority_fee |-> final_priority_fee,
                  final_transaction_destination |-> final_transaction_destination,
                  final_transaction_payload |-> final_transaction_payload,
                  destination_utxo_context |-> None ])

\* Variant: the network is read off the change address when its prefix names one.
try_new_with_context_prefix_network(utxo_context, change_address, sig_op_count, minimum_signatures, final_transaction_destination, final_priority_fee, final_transaction_payload, multiplexer) ==
    LET network_id == processor_network_id(utxo_context)
        from_prefix == NetworkTypeTryFromPrefix(change_address.prefix)
    IN  IF network_id.tag = "Err" THEN Err(network_id.error)
        ELSE Ok([ network_type |-> IF from_prefix.tag = "Ok" THEN from_prefix.value ELSE NetworkTypeFromNetworkId(network_id.value),
                  multiplexer |-> multiplexer,
                  sig_op_count |-> sig_op_count,
                  minimum_signatures |-> minimum_signatures,
                  change_address |-> change_address,
                  utxo_iterator |-> UtxoIteratorNew(utxo_context),
                  source_utxo_context |-> Some(utxo_context),
                  final_transaction_priority_fee |-> final_priority_fee,
                  final_transaction_destination |-> final_transaction_destination,
                  final_transaction_payload |-> final_transaction_payload,
                  destination_utxo_context |-> None ])

\* Variant: the signing parameters are raised to at least 1.
try_new_with_context_clamped(utxo_context, change_address, sig_op_count, minimum_signatures, final_transaction_destination, final_priority_fee, final_transaction_payload, multiplexer) ==
    LET network_id == processor_network_id(utxo_context)
    IN  IF network_id.tag = "Err" THEN Err(network_id.error)
        ELSE Ok([ network_type |-> NetworkTypeFromNetworkId(network_id.value),
                  multiplexer |-> multiplexer,
                  sig_op_count |-> IF sig_op_count < 1 THEN 1 ELSE sig_op_count,
                  minimum_signatures |-> IF minimum_signatures < 1 THEN 1 ELSE minimum_signatures,
                  change_address |-> change_address,
                  utxo_iterator |-> UtxoIteratorNew(utxo_context),
                  source_utxo_context |-> Some(utxo_context),
                  final_transaction_priority_fee |-> final_priority_fee,
                  final_transaction_destination |-> final_transaction_destination,
                  final_transaction_payload |-> final_transaction_payload,
                  destination_utxo_context |-> None ])

\* Variant: the destination context is initialised with the source context.
try_new_with_context_destination(utxo_context, change_address, sig_op_count, minimum_signatures, final_transaction_destination, final_priority_fee, final_transaction_payload, multiplexer) ==
    LET network_id == processor_network_id(utxo_context)
    IN  IF network_id.tag = "Err" THEN Err(network_id.error)
        ELSE Ok([ network_type |-> NetworkTypeFromNetworkId(network_id.value),
                  multiplexer |-> multiplexer,
                  sig_op_count |-> sig_op_count,
                  minimum_signatures |-> minimum_signatures,
                  change_address |-> change_address,
                  utxo_iterator |-> UtxoIteratorNew(utxo_context),
                  source_utxo_context |-> Some(utxo_context),
                  final_transaction_priority_fee |-> final_priority_fee,
                  final_transaction_destination |-> final_transaction_destination,
                  final_transaction_payload |-> final_transaction_payload,
                  destination_utxo_context |-> Some(utxo_context) ])

try_new_with_context(utxo_context, change_address, sig_op_count, minimum_signatures, final_transaction_destination, final_priority_fee, final_transaction_payload, multiplexer) ==
    LET network_id == processor_network_id(utxo_context)
    IN  IF network_id.tag = "Err" THEN Err(network_id.error)
        ELSE Ok([ network_type |-> NetworkTypeFromNetworkId(network_id.value),
                  multiplexer |-> multiplexer,
                  sig_op_count |-> sig_op_count,
                  minimum_signatures |-> minimum_signatures,
                  change_address |-> change_address,
                  utxo_iterator |-> UtxoIteratorNew(utxo_context),
                  source_utxo_context |-> Some(utxo_context),
                  final_transaction_priority_fee |-> final_priority_fee,
                  final_transaction_destination |-> final_transaction_destination,
                  final_transaction_payload |-> final_transaction_payload,
                  destination_utxo_context |-> None ])

\* Variant: every recognised prefix is taken for the main network.
try_new_with_iterator_mainnet(utxo_iterator, change_address, sig_op_count, minimum_signatures, final_transaction_destination, final_priority_fee, final_transaction_payload, multiplexer) ==
    LET network_type == NetworkTypeTryFromPrefix(change_address.prefix)
    IN  IF network_type.tag = "Err" THEN Err(network_type.error)
        ELSE Ok([ network_type |-> "Mainnet",
                  multiplexer |-> multiplexer,
                  sig_op_count |-> sig_op_count,
                  minimum_signatures |-> minimum_signatures,
                  change_address |-> change_address,
                  utxo_iterator |-> utxo_iterator,
                  source_utxo_context |-> None,
                  final_transaction_priority_fee |-> final_priority_fee,
                  final_transaction_destination |-> final_transaction_destination,
                  final_transaction_payload |-> final_transaction_payload,
                  destination_utxo_context |-> None ])

\* Variant: the first reference is pulled from the iterator before it is stored.
try_new_with_iterator_peek(utxo_iterator, change_address, sig_op_count, minimum_signatures, final_transaction_destination, final_priority_fee, final_transaction_payload, multiplexer) ==
    LET network_type == NetworkTypeTryFromPrefix(change_address.prefix)
        rest == IF utxo_iterator.items = <<>> THEN utxo_iterator
                ELSE [items |-> Tail(utxo_iterator.items)]
    IN  IF network_type.tag = "Err" THEN Err(network_type.error)
        ELSE Ok([ network_type |-> network_type.value,
                  multiplexer |-> multiplexer,
                  sig_op_count |-> sig_op_count,
                  minimum_signatures |-> minimum_signatures,
                  change_address |-> change_address,
                  utxo_iterator |-> rest,
                  source_utxo_context |-> None,
                  final_transaction_priority_fee |-> final_priority_fee,
                  final_transaction_destination |-> final_transaction_destination,
                  final_transaction_payload |-> final_transaction_payload,
                  destination_utxo_context |-> None ])

try_new_with_iterator(utxo_iterator, change_address, sig_op_count, minimum_signatures, final_transaction_destination, final_priority_fee, final_transaction_payload, multiplexer) ==
    LET network_type == NetworkTypeTryFromPrefix(change_address.prefix)
    IN  IF network_type.tag = "Err" THEN Err(network_type.error)
        ELSE Ok([ network_type |-> network_type.value,
                  multiplexer |-> multiplexer,
                  sig_op_count |-> sig_op_count,
                  minimum_signatures |-> minimum_signatures,
                  change_address |-> change_address,
                  utxo_iterator |-> utxo_iterator,
                  source_utxo_context |-> None,
                  final_transaction_priority_fee |-> final_priority_fee,
                  final_transaction_destination |-> final_transaction_destination,
                  final_transaction_payload |-> final_transaction_payload,
                  destination_utxo_context |-> None ])

\* Variant: the event multiplexer is dropped along the way.
utxo_context_transfer_drops_multiplexer(self, destination_utxo_context) ==
    [self EXCEPT !.destination_utxo_context = Some(destination_utxo_context),
                 !.multiplexer = None]

\* Variant: a destination that is already set is kept.
utxo_context_transfer_once(self, destination_utxo_context) ==
    IF self.destination_utxo_context # None THEN self
    ELSE [self EXCEPT !.destination_utxo_context = Some(destination_utxo_context)]

\* Variant: the context is written to the source field.
utxo_context_transfer_source(self, destination_utxo_context) ==
    [self EXCEPT !.source_utxo_context = Some(destination_utxo_context)]

utxo_context_transfer(self, destination_utxo_context) ==
    [self EXCEPT !.destination_utxo_context = Some(destination_utxo_context)]

\* ------------------------------------------------------------------ state
VARIABLES
    call,       \* the last call: its function and its arguments
    returned,   \* what the last call returned
    settings,   \* Option: the settings value the caller holds
    built,      \* the constructor call that made that value
    marks       \* utxo_context_transfer calls applied to it so far: 0, 1, or 2
                \* for two and more

vars == <<call, returned, settings, built, marks>>

NoCall == [fn |-> "none"]

Constructors == {"try_new_with_account", "try_new_with_context", "try_new_with_iterator"}

Init ==
    /\ call = NoCall
    /\ returned = None
    /\ settings = None
    /\ built = NoCall
    /\ marks = 0

\* The caller receives a constructor's Result: Ok(value) is unwrapped and held.
Construct(c, r) ==
    /\ call' = c
    /\ returned' = r
    /\ settings' = IF r.tag = "Ok" THEN Some(r.value) ELSE None
    /\ built' = IF r.tag = "Ok" THEN c ELSE NoCall
    /\ marks' = 0

TryNewWithAccount ==
    /\ call = NoCall
    /\ \E account \in Accounts, dest \in PaymentDestinations, fee \in FeesValues,
       payload \in PayloadValues :
        Construct([ fn |-> "try_new_with_account", account |-> account,
                    final_transaction_destination |-> dest,
                    final_priority_fee |-> fee,
                    final_transaction_payload |-> payload ],
                  try_new_with_account(account, dest, fee, payload))

TryNewWithContext ==
    /\ call = NoCall
    /\ \E utxo_context \in UtxoContexts, change_address \in Addresses,
       sig_op_count \in SigOpCounts, minimum_signatures \in MinimumSignatures,
       dest \in PaymentDestinations, fee \in FeesValues, payload \in PayloadValues,
       multiplexer \in {None} \cup { Some(m) : m \in Multiplexers } :
        Construct([ fn |-> "try_new_with_context", utxo_context |-> utxo_context,
                    change_address |-> change_address,
                    sig_op_count |-> sig_op_count,
                    minimum_signatures |-> minimum_signatures,
                    final_transaction_destination |-> dest,
                    final_priority_fee |-> fee,
                    final_transaction_payload |-> payload,
                    multiplexer |-> multiplexer ],
                  try_new_with_context(utxo_context, change_address, sig_op_count,
                                       minimum_signatures, dest, fee, payload,
                                       multiplexer))

TryNewWithIterator ==
    /\ call = NoCall
    /\ \E utxo_iterator \in BoxedIterators, change_address \in Addresses,
       sig_op_count \in SigOpCounts, minimum_signatures \in MinimumSignatures,
       dest \in PaymentDestinations, fee \in FeesValues, payload \in PayloadValues,
       multiplexer \in {None} \cup { Some(m) : m \in Multiplexers } :
        Construct([ fn |-> "try_new_with_iterator", utxo_iterator |-> utxo_iterator,
                    change_address |-> change_address,
                    sig_op_count |-> sig_op_count,
                    minimum_signatures |-> minimum_signatures,
                    final_transaction_destination |-> dest,
                    final_priority_fee |-> fee,
                    final_transaction_payload |-> payload,
                    multiplexer |-> multiplexer ],
                  try_new_with_iterator(utxo_iterator, change_address, sig_op_count,
                                        minimum_signatures, dest, fee, payload,
                                        multiplexer))

\* self is taken by value and the result handed back: the caller now holds it.
UtxoContextTransfer ==
    /\ settings # None
    /\ \E destination_utxo_context \in UtxoContexts :
        /\ call' = [ fn |-> "utxo_context_transfer",
                     destination_utxo_context |-> destination_utxo_context ]
        /\ returned' = utxo_context_transfer(settings[1], destination_utxo_context)
        /\ settings' = Some(returned')
        /\ marks' = IF marks < 2 THEN marks + 1 ELSE 2
        /\ UNCHANGED built

\* The caller is done with what it holds: the settings value moves into the
\* generator, or the error is handled.
Consume ==
    /\ call # NoCall
    /\ call' = NoCall
    /\ returned' = None
    /\ settings' = None
    /\ built' = NoCall
    /\ marks' = 0

Next ==
    \/ TryNewWithAccount
    \/ TryNewWithContext
    \/ TryNewWithIterator
    \/ UtxoContextTransfer
    \/ Consume

Spec == Init /\ [][Next]_vars

\* ----------------------------------------------------------------- claims

\* C1: every successful construction carries the network of its source: the
\* network type of the account's context's network id (try_new_with_account),
\* of the supplied context's network id (try_new_with_context), or the network
\* the change address's prefix denotes (try_new_with_iterator).
C1_NetworkFromSource ==
    (call.fn \in Constructors /\ returned.tag = "Ok") =>
        /\ call.fn = "try_new_with_account" =>
               \E n \in NetworkIds :
                   /\ call.account.utxo_context.network_id = Some(n)
                   /\ returned.value.network_type = n.network_type
        /\ call.fn = "try_new_with_context" =>
               \E n \in NetworkIds :
                   /\ call.utxo_context.network_id = Some(n)
                   /\ returned.value.network_type = n.network_type
        /\ call.fn = "try_new_with_iterator" =>
               <<call.change_address.prefix, returned.value.network_type>> \in
                   { <<"kaspa", "Mainnet">>, <<"kaspatest", "Testnet">>,
                     <<"kaspasim", "Simnet">>, <<"kaspadev", "Devnet">> }

\* C1 witness: try_new_with_context succeeded on a testnet-11 context with a
\* change address of another network's prefix.
C1_Witness ==
    /\ call.fn = "try_new_with_context"
    /\ returned.tag = "Ok"
    /\ call.utxo_context.network_id = Some([network_type |-> "Testnet", suffix |-> Some(11)])
    /\ call.change_address.prefix = "kaspa"
    /\ returned.value.network_type = "Testnet"

\* C2: a constructor returns Err, with no settings value, exactly when its
\* resolution step fails (account: the context's network id or the change
\* address; context: the network id; iterator: the change address's prefix);
\* otherwise it returns Ok with a value that has every field.
C2_AtomicConstruction ==
    call.fn \in Constructors =>
        LET fails ==
                CASE call.fn = "try_new_with_account" ->
                         \/ call.account.utxo_context.network_id = None
                         \/ call.account.change_address.tag = "Err"
                  [] call.fn = "try_new_with_context" ->
                         call.utxo_context.network_id = None
                  [] call.fn = "try_new_with_iterator" ->
                         call.change_address.prefix \notin
                             {"kaspa", "kaspatest", "kaspasim", "kaspadev"}
        IN  /\ returned.tag \in {"Ok", "Err"}
            /\ fails <=> returned.tag = "Err"
            /\ returned.tag = "Err" =>
                   /\ DOMAIN returned = {"tag", "error"}
                   /\ settings = None
            /\ returned.tag = "Ok" =>
                   /\ DOMAIN returned = {"tag", "value"}
                   /\ DOMAIN returned.value = GeneratorSettingsFields
                   /\ settings = Some(returned.value)

\* C2 witness: try_new_with_account failed on the change address alone.
C2_Witness ==
    /\ call.fn = "try_new_with_account"
    /\ call.account.utxo_context.network_id # None
    /\ call.account.change_address.tag = "Err"
    /\ returned.tag = "Err"
    /\ settings = None

\* C3: utxo_context_transfer returns a settings value whose destination
\* context is Some(the supplied context) and whose other ten fields are those
\* of the value it was applied to.
C3_TransferFrame ==
    [][ call'.fn = "utxo_context_transfer" =>
            /\ settings # None
            /\ settings' = Some(returned')
            /\ DOMAIN returned' = GeneratorSettingsFields
            /\ returned'.destination_utxo_context = Some(call'.destination_utxo_context)
            /\ \A f \in GeneratorSettingsFields \ {"destination_utxo_context"} :
                   returned'[f] = settings[1][f] ]_vars

\* C3 witness: a value with a multiplexer and a source context has been marked.
C3_Witness ==
    /\ call.fn = "utxo_context_transfer"
    /\ marks = 1
    /\ returned.multiplexer # None
    /\ returned.source_utxo_context # None
    /\ returned.destination_utxo_context = Some(call.destination_utxo_context)

\* C4 (as claimed): in every settings value the change address's prefix is
\* the prefix of the settings' network.
C4_ChangeAddressOnNetwork ==
    settings # None =>
        <<settings[1].change_address.prefix, settings[1].network_type>> \in
            { <<"kaspa", "Mainnet">>, <<"kaspatest", "Testnet">>,
              <<"kaspasim", "Simnet">>, <<"kaspadev", "Devnet">> }

\* C4 (amended): in every settings value made by try_new_with_iterator, also
\* after utxo_context_transfer, the change address's prefix is the prefix of
\* the settings' network.
C4_IteratorChangeAddressOnNetwork ==
    (settings # None /\ built.fn = "try_new_with_iterator") =>
        <<settings[1].change_address.prefix, settings[1].network_type>> \in
            { <<"kaspa", "Mainnet">>, <<"kaspatest", "Testnet">>,
              <<"kaspasim", "Simnet">>, <<"kaspadev", "Devnet">> }

\* C4 witness: a testnet value made by try_new_with_iterator has been marked.
C4_Witness ==
    /\ settings # None
    /\ built.fn = "try_new_with_iterator"
    /\ marks > 0
    /\ settings[1].change_address.prefix = "kaspatest"
    /\ settings[1].network_type = "Testnet"

\* C5 (as claimed): a destination context, once set, is never replaced by a
\* later utxo_context_transfer on the same value.
C5_DestinationNeverReplaced ==
    [][ (settings # None /\ settings' # None
         /\ settings[1].destination_utxo_context # None) =>
            settings'[1].destination_utxo_context = settings[1].destination_utxo_context ]_vars

\* C5 (amended): utxo_context_transfer may be applied again to the value it
\* returned; each application leaves the destination context at the context
\* supplied to it, and a destination context that is set is never cleared.
C5_TransferSetsSuppliedDestination ==
    [][ /\ call'.fn = "utxo_context_transfer" =>
               /\ settings' # None
               /\ settings'[1].destination_utxo_context = Some(call'.destination_utxo_context)
        /\ (settings # None /\ settings' # None
            /\ settings[1].destination_utxo_context # None) =>
               settings'[1].destination_utxo_context # None ]_vars

\* C5 witness: the value has been marked twice and holds the second context.
C5_Witness ==
    /\ call.fn = "utxo_context_transfer"
    /\ marks = 2
    /\ settings # None
    /\ settings[1].destination_utxo_context = Some(call.destination_utxo_context)

\* C6 (as claimed): every constructed settings value has sig_op_count >= 1
\* and minimum_signatures >= 1.
C6_SignaturesAtLeastOne ==
    (call.fn \in Constructors /\ returned.tag = "Ok") =>
        /\ returned.value.sig_op_count >= 1
        /\ returned.value.minimum_signatures >= 1

\* C6 (amended): every constructed settings value has exactly the supplied
\* sig_op_count and minimum_signatures (the account's, or the caller's), so
\* each is >= 1 exactly when the supplied one is; 0 is stored as given.
C6_SignaturesAsSupplied ==
    (call.fn \in Constructors /\ returned.tag = "Ok") =>
        LET supplied == IF call.fn = "try_new_with_account" THEN call.account ELSE call
        IN  /\ returned.value.sig_op_count = supplied.sig_op_count
            /\ returned.value.minimum_signatures = supplied.minimum_signatures
            /\ returned.value.sig_op_count >= 1 <=> supplied.sig_op_count >= 1
            /\ returned.value.minimum_signatures >= 1 <=> supplied.minimum_signatures >= 1

\* C6 witness: try_new_with_context returned a value with both parameters 0.
C6_Witness ==
    /\ call.fn = "try_new_with_context"
    /\ returned.tag = "Ok"
    /\ call.sig_op_count = 0
    /\ call.minimum_signatures = 0
    /\ returned.value.sig_op_count = 0
    /\ returned.value.minimum_signatures = 0

\* C7: in every settings value, also after utxo_context_transfer, the source
\* context is Some(the account's context) when made by try_new_with_account,
\* Some(the supplied context) when made by try_new_with_context, and None
\* when made by try_new_with_iterator.
C7_SourceContextByPath ==
    settings # None =>
        /\ settings[1].source_utxo_context # None <=>
               built.fn \in {"try_new_with_account", "try_new_with_context"}
        /\ built.fn = "try_new_with_account" =>
               settings[1].source_utxo_context = Some(built.account.utxo_context)
        /\ built.fn = "try_new_with_context" =>
               settings[1].source_utxo_context = Some(built.utxo_context)
        /\ built.fn = "try_new_with_iterator" =>
               settings[1].source_utxo_context = None

\* C7 witness: a value made by try_new_with_iterator has been marked and has
\* no source context.
C7_Witness ==
    /\ settings # None
    /\ built.fn = "try_new_with_iterator"
    /\ marks > 0
    /\ settings[1].source_utxo_context = None
    /\ settings[1].destination_utxo_context # None

\* C8: every constructor returns a value without destination context, and a
\* settings value has a destination context exactly when utxo_context_transfer
\* has been applied to it since its construction.
C8_DestinationOnlyByTransfer ==
    /\ (call.fn \in Constructors /\ returned.tag = "Ok") =>
           returned.value.destination_utxo_context = None
    /\ settings # None =>
           (settings[1].destination_utxo_context # None <=> marks > 0)

\* C8 witness: a value made by try_new_with_context has been marked with a
\* context other than its source.
C8_Witness ==
    /\ settings # None
    /\ built.fn = "try_new_with_context"
    /\ marks = 1
    /\ settings[1].destination_utxo_context # None
    /\ settings[1].destination_utxo_context # settings[1].source_utxo_context

\* C9: try_new_with_account succeeds for every account whose network id and
\* change address resolve, and the value has the account's change address,
\* sig_op_count, minimum_signatures and context, Some(the wallet's
\* multiplexer), and the supplied destination, priority fee and payload.
C9_AccountValues ==
    call.fn = "try_new_with_account" =>
        /\ (call.account.utxo_context.network_id # None
            /\ call.account.change_address.tag = "Ok") => returned.tag = "Ok"
        /\ returned.tag = "Ok" =>
               /\ returned.value.change_address = call.account.change_address.value
               /\ returned.value.sig_op_count = call.account.sig_op_count
               /\ returned.value.minimum_signatures = call.account.minimum_signatures
               /\ returned.value.source_utxo_context = Some(call.account.utxo_context)
               /\ returned.value.multiplexer = Some(call.account.wallet_multiplexer)
               /\ returned.value.final_transaction_destination = call.final_transaction_destination
               /\ returned.value.final_transaction_priority_fee = call.final_priority_fee
               /\ returned.value.final_transaction_payload = call.final_transaction_payload

\* C9 witness: an account with sig_op_count 2 and minimum_signatures 1.
C9_Witness ==
    /\ call.fn = "try_new_with_account"
    /\ returned.tag = "Ok"
    /\ call.account.sig_op_count = 2
    /\ call.account.minimum_signatures = 1
    /\ returned.value.sig_op_count = 2
    /\ returned.value.minimum_signatures = 1
    /\ returned.value.multiplexer = Some(call.account.wallet_multiplexer)

\* C10: try_new_with_iterator succeeds for an iterator of any length, zero
\* included, when the change address's prefix names a network, and the
\* settings' iterator still yields the supplied references in the supplied
\* order, also after utxo_context_transfer.
C10_IteratorUntouched ==
    /\ call.fn = "try_new_with_iterator" =>
           /\ call.change_address.prefix \in {"kaspa", "kaspatest", "kaspasim", "kaspadev"}
                  => returned.tag = "Ok"
           /\ returned.tag = "Ok" =>
                  returned.value.utxo_iterator.items = call.utxo_iterator.items
    /\ (settings # None /\ built.fn = "try_new_with_iterator") =>
           settings[1].utxo_iterator.items = built.utxo_iterator.items

\* C10 witness: a value made from an iterator of two references has been
\* marked and its iterator still holds both.
C10_Witness ==
    /\ settings # None
    /\ built.fn = "try_new_with_iterator"
    /\ marks > 0
    /\ Len(built.utxo_iterator.items) = 2
    /\ settings[1].utxo_iterator.items = built.utxo_iterator.items

====
